---- MODULE Spec2Model ----
(***************************************************************************)
(* LSB steganography tool (src/main.cpp): the bit-level codec              *)
(* Steganography::encode / Steganography::decode, stepped one pixel access *)
(* at a time, and the window of main(): its fixed-size character buffers   *)
(* and the calls of the codec its buttons make.                            *)
(***************************************************************************)
EXTENDS Integers, Naturals, Sequences, FiniteSets, TLC

(***************************************************************************)
(* Program constants.                                                      *)
(***************************************************************************)
\* width of the size header: sizeof(secretSize) * 8, and the loop bound i < 32
HeaderBits == 32
\* unsigned int and uint32_t are 4 bytes wide, uint64_t is 8 bytes wide
Bytes32 == 4
Bytes64 == 8
\* char has 8 bits: the inner loops run i < 8
ByteBits == 8

(***************************************************************************)
(* Bounds of the model.                                                    *)
(***************************************************************************)
\* longest secret file offered to encode
MaxLen == 2
\* button presses and text edits the window is followed for
MaxEvents == 5
\* pixel accesses outside the image a call of encode is followed through one
\* by one; the rest of its loop is taken in one step
MaxStray == 2

\* bytes a secret file is made of
ByteVals == {0, 65, 128, 255}
\* every secret file content of at most MaxLen bytes
Payloads == UNION {[1..n -> ByteVals] : n \in 0..MaxLen}
\* leading bytes and lengths (2^32, 2^32 + 1, as size_t) of the long secret
\* files; a long file repeats its leading bytes up to its length
LongLeads == {<<170>>}
LongLengths == {<<0, 0, 0, 0, 1, 0, 0, 0>>, <<1, 0, 0, 0, 1, 0, 0, 0>>}
\* carrier dimensions <<width, height>>: capacities 30, 39, 42, 42, 48, 63 bits
Dims == {<<5, 2>>, <<13, 1>>, <<7, 2>>, <<2, 7>>, <<4, 4>>, <<3, 7>>}
\* values the LSBs of the first 32 slots of a carrier file assemble to, as four
\* bytes, least significant first: 0, 1, 2, 3, 2^29, 2^32 - 1
HeaderValues == {<<0, 0, 0, 0>>, <<1, 0, 0, 0>>, <<2, 0, 0, 0>>, <<3, 0, 0, 0>>,
                 <<0, 0, 0, 32>>, <<255, 255, 255, 255>>}
\* fill patterns of a carrier file
Patterns == {0, 1, 2}
\* what a read outside the pixel array may return
GarbageColors == {<<0, 0, 0>>, <<255, 255, 255>>}

\* no image (nothing saved, nothing loaded)
NoImage == [size |-> <<0, 0>>, pixels |-> <<>>]
\* a value of a call in which the process has ended at an access outside the
\* image: it is not followed to its end, its last value is not known
Gone == <<>>
\* no decoded file on disk
NoFile == [written |-> FALSE, bytes |-> <<>>]

(***************************************************************************)
(* Result messages.                                                        *)
(***************************************************************************)
RCarrierLoadFailed == "Error: Could not load carrier image."
RSecretReadFailed == "Error: Could not open secret file."
RInsufficientCapacity == "Error: Carrier image is too small to hold the secret data."
ROutputWriteFailed == "Error: Failed to save the output image. Ensure it's a .png file."
REncodeSuccess == "Success! Data encoded and saved to "
RStegoLoadFailed == "Error: Could not load the steganographic image."
RInvalidLength == "Error: Decoded size is invalid or larger than image capacity."
REmptyPayload == "Warning: Decoded size is 0. Nothing to extract."
RDecodeCreateFailed == "Error: Could not create output file for decoded data."
RDecodeSuccess == "Success! Decoded data saved to "
NoResult == ""

(***************************************************************************)
(* Fixed-width unsigned integers.  A uint32_t / uint64_t value is the      *)
(* sequence of its 4 / 8 bytes, least significant first; arithmetic on it  *)
(* drops the carry out of the top byte, as the machine does.               *)
(***************************************************************************)
\* byte k (0-based) of a number below 2^31
ByteOfInt(n, k) ==
    IF k = 0 THEN n % 256
    ELSE IF k = 1 THEN (n \div 256) % 256
    ELSE IF k = 2 THEN (n \div 65536) % 256
    ELSE IF k = 3 THEN n \div 16777216
    ELSE 0

\* a number below 2^31 as an unsigned integer of the given width
ToUnsigned(n, width) == [k \in 1..width |-> ByteOfInt(n, k - 1)]

\* the value of an unsigned integer that is below 2^31
RECURSIVE ToInt(_)
ToInt(a) == IF Len(a) = 0 THEN 0 ELSE a[1] + 256 * ToInt(Tail(a))

\* (uint64_t)a
Widen(a) == [k \in 1..Bytes64 |-> IF k <= Len(a) THEN a[k] ELSE 0]

\* uint32_t secretSize = secretData.size(): the low 32 bits of a size_t
Narrow(a) == [k \in 1..Bytes32 |-> a[k]]

\* the upper 32 bits of a 64-bit value, as a uint32_t
UpperHalf(a) == [k \in 1..Bytes32 |-> a[Bytes32 + k]]

\* a * m + c in the width of a (m below 2^23)
RECURSIVE MulAddFrom(_, _, _, _)
MulAddFrom(a, m, carry, k) ==
    IF k > Len(a) THEN <<>>
    ELSE LET t == a[k] * m + carry
         IN  <<t % 256>> \o MulAddFrom(a, m, t \div 256, k + 1)
MulAdd(a, m, c) == MulAddFrom(a, m, c, 1)

\* a < b for two unsigned integers of one width
RECURSIVE LessFrom(_, _, _)
LessFrom(a, b, k) ==
    IF k = 0 THEN FALSE
    ELSE IF a[k] # b[k] THEN a[k] < b[k]
    ELSE LessFrom(a, b, k - 1)
Less(a, b) == LessFrom(a, b, Len(a))

\* long division by d (below 2^23): the remainder carried into byte k
RECURSIVE RemInto(_, _, _)
RemInto(a, d, k) ==
    IF k >= Len(a) THEN 0
    ELSE (RemInto(a, d, k + 1) * 256 + a[k + 1]) % d

\* a / d
DivSmall(a, d) == [k \in 1..Len(a) |-> (RemInto(a, d, k) * 256 + a[k]) \div d]

\* a - b for two unsigned integers of one width, b <= a
RECURSIVE BorrowFrom(_, _, _)
BorrowFrom(a, b, k) ==
    IF k = 0 THEN 0
    ELSE IF a[k] - b[k] - BorrowFrom(a, b, k - 1) < 0 THEN 1 ELSE 0
Minus(a, b) == [k \in 1..Len(a) |-> (a[k] - b[k] - BorrowFrom(a, b, k - 1)) % 256]

\* bit i of an unsigned integer: (a >> i) & 1
BitOfUnsigned(a, i) == (a[(i \div 8) + 1] \div (2 ^ (i % 8))) % 2

(***************************************************************************)
(* Bit packing.                                                            *)
(***************************************************************************)
\* (byte >> i) & 1 on a char, also a negative one (arithmetic shift)
BitOf(v, i) == (v \div (2 ^ i)) % 2

\* a slip: colorChannel &= 1 where the bit is cleared
embedBit_and1(colorChannel, bit) ==
    IF bit = 1
    THEN (IF colorChannel % 2 = 1 THEN colorChannel ELSE colorChannel + 1)
    ELSE colorChannel % 2

\* a slip: colorChannel += bit on the 8-bit channel
embedBit_add(colorChannel, bit) == (colorChannel + bit) % 256

\* colorChannel |= 1  or  colorChannel &= ~1
embedBit(colorChannel, bit) ==
    IF bit = 1
    THEN (IF colorChannel % 2 = 1 THEN colorChannel ELSE colorChannel + 1)
    ELSE colorChannel - (colorChannel % 2)

\* colorChannel & 1
extractBit(colorChannel) == colorChannel % 2

\* std::vector<char>: a file byte 0..255 held in a (signed) char
ToChar(v) == IF v % 256 >= 128 THEN (v % 256) - 256 ELSE v % 256

\* ofstream::write: a char written as a file byte
ToByte(c) == c % 256

\* secretSize |= (1 << i) on a uint32_t (for i = 31 the int 1 << 31 converts to
\* the top bit)
OrBit32(v, i) ==
    IF BitOfUnsigned(v, i) = 1 THEN v
    ELSE [v EXCEPT ![(i \div 8) + 1] = @ + 2 ^ (i % 8)]

\* currentByte |= (1 << bit_i) on a char
OrBitChar(c, i) == IF BitOf(c, i) = 1 THEN c ELSE ToChar(ToByte(c) + 2 ^ i)

(***************************************************************************)
(* Bit traversal.                                                          *)
(***************************************************************************)
\* bitIndex / 3, which is below 2^31
PixelIndex(b) == ToInt(DivSmall(b, 3))

\* pos.x = (bitIndex / 3) % imageSize.x
PosX(b, size) == PixelIndex(b) % size[1]

\* pos.y = (bitIndex / 3) / imageSize.x
PosY(b, size) == PixelIndex(b) \div size[1]

\* switch (bitIndex % 3): 0 red, 1 green, 2 blue
Channel(b) == RemInto(b, 3, 0)

\* bitIndex++ on an unsigned int
NextIndex(b) == MulAdd(b, 1, 1)

\* the pixel lies inside the image
InImage(image, x, y) == x < image.size[1] /\ y < image.size[2]

\* sf::Image::getPixel: the stored colour; a read out of range is undefined:
\* it returns anything (here) or ends the process (EncodeFault, DecodeFault)
getPixel(image, x, y) ==
    IF InImage(image, x, y) THEN {image.pixels[<<x, y>>]} ELSE GarbageColors

\* sf::Image::setPixel: the colour stored; a write out of range is undefined:
\* it lands outside the pixel array and leaves every pixel as it is (here), or
\* the process ends (EncodeFault)
setPixel(image, x, y, color) ==
    IF InImage(image, x, y)
    THEN [image EXCEPT !.pixels = [@ EXCEPT ![<<x, y>>] = color]]
    ELSE image

\* case 0: embedBit(color.r) ; case 1: color.g ; case 2: color.b
EmbedInColor(color, b, bit) ==
    [color EXCEPT ![Channel(b) + 1] = embedBit(@, bit)]

\* case 0: extractBit(color.r) ; case 1: color.g ; case 2: color.b
ExtractFromColor(color, b) == extractBit(color[Channel(b) + 1])

(***************************************************************************)
(* Capacity.                                                               *)
(***************************************************************************)
\* (uint64_t)imageSize.x * imageSize.y * 3
Capacity(size) == MulAdd(MulAdd(ToUnsigned(size[1], Bytes64), size[2], 0), 3, 0)

\* (sizeof(secretSize) * 8) + ((uint64_t)secretSize * 8)
RequiredBits(n) == MulAdd(Widen(n), ByteBits, HeaderBits)

\* a slip: capacity <= requiredBits
TooSmall_le(size, n) == ~Less(RequiredBits(n), Capacity(size))

\* a slip: the 32 header bits left out of requiredBits
TooSmall_payloadOnly(size, n) == Less(Capacity(size), MulAdd(Widen(n), ByteBits, 0))

\* encode: capacity < requiredBits
TooSmall(size, n) == Less(Capacity(size), RequiredBits(n))

\* a slip: secretSize * 8 + 32 computed in 32 bits
InvalidSize_32(size, n) == Less(Capacity(size), Widen(MulAdd(n, 8, 32)))

\* decode: (uint64_t)secretSize * 8 + 32 > capacity
InvalidSize(size, n) == Less(Capacity(size), MulAdd(Widen(n), 8, 32))

(***************************************************************************)
(* Carrier files.                                                          *)
(***************************************************************************)
SlotOf(x, y, c, w) == 3 * (y * w + x) + c

PatternByte(hv, pat, s) ==
    LET high == IF pat = 0 THEN 0 ELSE IF pat = 1 THEN 127 ELSE (7 * s + 3) % 128
        low  == IF s < 32 THEN BitOfUnsigned(hv, s)
                ELSE IF pat = 0 THEN 0 ELSE IF pat = 1 THEN 1 ELSE (s \div 2) % 2
    IN  2 * high + low

CarrierFile(d, hv, pat) ==
    [size   |-> d,
     pixels |-> [p \in (0..(d[1] - 1)) \X (0..(d[2] - 1)) |->
                   <<PatternByte(hv, pat, SlotOf(p[1], p[2], 0, d[1])),
                     PatternByte(hv, pat, SlotOf(p[1], p[2], 1, d[1])),
                     PatternByte(hv, pat, SlotOf(p[1], p[2], 2, d[1]))>>]]

CarrierFiles == {CarrierFile(d, hv, pat) : d \in Dims, hv \in HeaderValues, pat \in Patterns}

(***************************************************************************)
(* Secret files: the leading bytes and the length.                         *)
(***************************************************************************)
SecretFiles ==
    {[lead |-> p, length |-> ToUnsigned(Len(p), Bytes64)] : p \in Payloads}
    \cup {[lead |-> p, length |-> n] : p \in LongLeads, n \in LongLengths}

\* std::vector<char> secretData(...): the bytes read, as chars
CharsOf(bytes) == [k \in 1..Len(bytes) |-> ToChar(bytes[k])]

\* secretData[k - 1] (k from 1): behind the leading bytes they repeat
DataAt(data, k) == data[((k - 1) % Len(data)) + 1]

(***************************************************************************)
(* The passes of a whole call of encode: 32 for the header and 8 for each  *)
(* of the secretData.size() bytes.  Pass k (counted from 0) works with     *)
(* bitIndex = k mod 2^32, on the slot of that number.                      *)
(***************************************************************************)
\* the number of the last pass, 31 + 8 * length, as a 64-bit count
LastPass(length) == MulAdd(length, ByteBits, HeaderBits - 1)

\* the largest bitIndex among the passes up to the one numbered last
TopIndex(last) ==
    IF UpperHalf(last) = ToUnsigned(0, Bytes32) THEN last
    ELSE <<255, 255, 255, 255, 0, 0, 0, 0>>

\* the first pass (counted from 1) of a call that works outside an image of
\* less than 2^31 slots, 0 when every pass stays inside
FirstStray(size, length) ==
    IF Less(TopIndex(LastPass(length)), Capacity(size)) THEN 0
    ELSE ToInt(Capacity(size)) + 1

\* the last pass of a call (from 0, a 64-bit count) that works on slot s,
\* <<>> when none does
LastPassOn(s, length) ==
    LET last == LastPass(length)
        turns == UpperHalf(last)
    IN  IF ~Less(Narrow(last), ToUnsigned(s, Bytes32))
        THEN ToUnsigned(s, Bytes32) \o turns
        ELSE IF turns = ToUnsigned(0, Bytes32) THEN <<>>
        ELSE ToUnsigned(s, Bytes32) \o Minus(turns, ToUnsigned(1, Bytes32))

\* the bit embedded at pass k (from 0, a 64-bit count): (secretSize >> i) & 1
\* in the header loop, (byte >> i) & 1 in the payload loop
BitAtPass(k, size32, data) ==
    IF Less(k, ToUnsigned(HeaderBits, Bytes64))
    THEN BitOfUnsigned(size32, ToInt(k))
    ELSE LET p == Minus(k, ToUnsigned(HeaderBits, Bytes64))
         IN  BitOf(data[RemInto(DivSmall(p, ByteBits), Len(data), 0) + 1],
                   RemInto(p, ByteBits, 0))

\* the image after every pass of a call: a channel no pass works on keeps its
\* value, the others carry the bit of the last pass that worked on them; what
\* was written outside the pixel array is not in the image
EmbedWide(image, size32, data, length) ==
    [image EXCEPT !.pixels =
        [p \in DOMAIN @ |->
            [c \in 1..3 |->
                LET k == LastPassOn(SlotOf(p[1], p[2], c - 1, image.size[1]), length)
                IN  IF k = <<>> THEN @[p][c]
                    ELSE embedBit(@[p][c], BitAtPass(k, size32, data))]]]

(***************************************************************************)
(* State of the codec.                                                     *)
(***************************************************************************)
VARIABLES
    carrierFile,    \* the carrier image on disk
    secretFile,     \* the secret file on disk, known once read: its leading
                    \* bytes (0..255), all of them unless the file is a long one
    secretLength,   \* the length of that file, a 64-bit count
    outputImage,    \* the image saved by encode, or NoImage
    outputFile,     \* the bytes written by decode, or NoFile
    carrierImage,   \* encode: sf::Image carrierImage
    stegoImage,     \* decode: sf::Image stegoImage
    imageSize,      \* sf::Vector2u imageSize
    secretData,     \* std::vector<char> secretData (encode: its leading chars)
    secretSize,     \* uint32_t secretSize
    bitIndex,       \* unsigned int bitIndex
    i,              \* loop counter i / bit_i
    byte_i,         \* encode: position in secretData while the payload loop
                    \* runs (from 1), else 0; decode: byte_i
    currentByte,    \* decode: char currentByte
    encodeResult,   \* string returned by encode
    decodeResult,   \* string returned by decode
    pc,             \* position in the program
    trace           \* pixel accesses of the running call: <<x, y, channel>>,
                    \* as far as the call is followed access by access

codecVars == <<carrierFile, secretFile, secretLength, outputImage, outputFile, carrierImage,
               stegoImage, imageSize, secretData, secretSize, bitIndex, i,
               byte_i, currentByte, encodeResult, decodeResult, pc, trace>>

(***************************************************************************)
(* State of the window.                                                    *)
(***************************************************************************)
VARIABLES
    carrierPath,        \* char carrierPath[256]
    secretPath,         \* char secretPath[256]
    encodeOutputPath,   \* char encodeOutputPath[256]
    stegoPath,          \* char stegoPath[256]
    decodeOutputPath,   \* char decodeOutputPath[256]
    status,             \* char status[256]
    files,              \* the image files the window can reach, by name
    events              \* button presses and text edits handled so far

guiVars == <<carrierPath, secretPath, encodeOutputPath, stegoPath,
             decodeOutputPath, status, files, events>>

(***************************************************************************)
(* State of the cursor runs.                                               *)
(***************************************************************************)
VARIABLES
    runOp,          \* "encode" or "decode"
    runSize,        \* imageSize
    runSecretSize,  \* uint32_t secretSize
    runDataSize,    \* rounds of the payload loop: secretData.size() in encode,
                    \* secretSize in decode, as a 64-bit count
    runBitIndex,    \* unsigned int bitIndex
    runBytes,       \* payload bytes done: the position in secretData / byte_i
    runBits,        \* pixel accesses made so far, as a 64-bit count
    runLead,        \* encode: the leading chars of secretData, which repeat
    runHeader,      \* the LSBs of slots 0..31 of the image in memory, bit s of
                    \* this uint32_t being the LSB of slot s
    runEmbedded,    \* decode: the length of the secret file encode embedded in
                    \* the image, <<>> for an image encode did not save
    runPc           \* position in the program

runVars == <<runOp, runSize, runSecretSize, runDataSize, runBitIndex, runBytes,
             runBits, runLead, runHeader, runEmbedded, runPc>>

CodecInit ==
    /\ carrierFile \in CarrierFiles
    /\ secretFile = <<>>
    /\ secretLength = ToUnsigned(0, Bytes64)
    /\ outputImage = NoImage
    /\ outputFile = NoFile
    /\ carrierImage = NoImage
    /\ stegoImage = NoImage
    /\ imageSize = <<0, 0>>
    /\ secretData = <<>>
    /\ secretSize = ToUnsigned(0, Bytes32)
    /\ bitIndex = ToUnsigned(0, Bytes32)
    /\ i = 0
    /\ byte_i = 0
    /\ currentByte = 0
    /\ encodeResult = NoResult
    /\ decodeResult = NoResult
    /\ pc = "idle"
    /\ trace = <<>>

(***************************************************************************)
(* Steganography::encode                                                   *)
(***************************************************************************)
\* loadFromFile fails
EncodeLoadFailed ==
    /\ pc = "idle"
    /\ encodeResult' = RCarrierLoadFailed
    /\ pc' = "encDone"
    /\ UNCHANGED <<carrierFile, secretFile, secretLength, outputImage, outputFile, carrierImage,
                   stegoImage, imageSize, secretData, secretSize, bitIndex, i,
                   byte_i, currentByte, decodeResult, trace>>
    /\ UNCHANGED <<guiVars, runVars>>

\* the image loads, the secret file cannot be opened
EncodeSecretFailed ==
    /\ pc = "idle"
    /\ carrierImage' = carrierFile
    /\ encodeResult' = RSecretReadFailed
    /\ pc' = "encDone"
    /\ UNCHANGED <<carrierFile, secretFile, secretLength, outputImage, outputFile,
                   stegoImage, imageSize, secretData, secretSize, bitIndex, i,
                   byte_i, currentByte, decodeResult, trace>>
    /\ UNCHANGED <<guiVars, runVars>>

\* both files are read; secretSize is the length cut to 32 bits; the
\* capacity check works with secretSize
EncodeBegin ==
    /\ pc = "idle"
    /\ \E file \in SecretFiles :
         /\ secretFile' = file.lead
         /\ secretLength' = file.length
         /\ secretData' = CharsOf(file.lead)
         /\ secretSize' = Narrow(file.length)
         /\ carrierImage' = carrierFile
         /\ imageSize' = carrierFile.size
         /\ IF TooSmall(carrierFile.size, Narrow(file.length))
            THEN /\ encodeResult' = RInsufficientCapacity
                 /\ pc' = "encDone"
            ELSE /\ encodeResult' = NoResult
                 /\ pc' = "encHeader"
    /\ bitIndex' = ToUnsigned(0, Bytes32)
    /\ i' = 0
    /\ byte_i' = 0
    /\ trace' = <<>>
    /\ UNCHANGED <<carrierFile, outputImage, outputFile, stegoImage,
                   currentByte, decodeResult>>
    /\ UNCHANGED <<guiVars, runVars>>

\* one pass of either embedding loop: get, embed, set, bitIndex++
EmbedStep(bit) ==
    LET x == PosX(bitIndex, imageSize)
        y == PosY(bitIndex, imageSize)
    IN  /\ \E color \in getPixel(carrierImage, x, y) :
             carrierImage' = setPixel(carrierImage, x, y, EmbedInColor(color, bitIndex, bit))
        /\ trace' = Append(trace, <<x, y, Channel(bitIndex)>>)
        /\ bitIndex' = NextIndex(bitIndex)

\* the accesses of the running call that went outside the image
StrayCount ==
    Cardinality({k \in 1..Len(trace) :
                    ~(trace[k][1] < imageSize[1] /\ trace[k][2] < imageSize[2])})

\* the pass about to run works outside the image
AtStray == ~InImage(carrierImage, PosX(bitIndex, imageSize), PosY(bitIndex, imageSize))

\* for (int i = 0; i < 32; ++i): bit i of secretSize
EncodeHeaderBit ==
    /\ pc = "encHeader"
    /\ i < HeaderBits
    /\ EmbedStep(BitOfUnsigned(secretSize, i))
    /\ IF i + 1 < HeaderBits
       THEN /\ i' = i + 1
            /\ byte_i' = byte_i
            /\ pc' = pc
       ELSE /\ i' = 0
            /\ IF secretLength = ToUnsigned(0, Bytes64)
               THEN byte_i' = 0 /\ pc' = "encSave"
               ELSE byte_i' = 1 /\ pc' = "encPayload"
    /\ UNCHANGED <<carrierFile, secretFile, secretLength, outputImage, outputFile, stegoImage,
                   imageSize, secretData, secretSize, currentByte, encodeResult,
                   decodeResult>>
    /\ UNCHANGED <<guiVars, runVars>>

\* for (char byte : secretData) for (int i = 0; i < 8; ++i): bit i of byte;
\* the loop runs secretData.size() times, whatever secretSize is
EncodePayloadBit ==
    /\ pc = "encPayload"
    /\ ~Less(secretLength, ToUnsigned(byte_i, Bytes64))
    /\ i < ByteBits
    /\ AtStray => StrayCount < MaxStray
    /\ EmbedStep(BitOf(DataAt(secretData, byte_i), i))
    /\ IF i + 1 < ByteBits
       THEN /\ i' = i + 1
            /\ byte_i' = byte_i
            /\ pc' = pc
       ELSE /\ i' = 0
            /\ IF ToUnsigned(byte_i, Bytes64) = secretLength
               THEN byte_i' = 0 /\ pc' = "encSave"
               ELSE byte_i' = byte_i + 1 /\ pc' = pc
    /\ UNCHANGED <<carrierFile, secretFile, secretLength, outputImage, outputFile, stegoImage,
                   imageSize, secretData, secretSize, currentByte, encodeResult,
                   decodeResult>>
    /\ UNCHANGED <<guiVars, runVars>>

\* getPixel / setPixel outside the pixel array may also end the process
EncodeFault ==
    /\ pc \in {"encHeader", "encPayload"}
    /\ AtStray
    /\ trace' = Append(trace, <<PosX(bitIndex, imageSize), PosY(bitIndex, imageSize),
                                 Channel(bitIndex)>>)
    /\ pc' = "crashed"
    /\ UNCHANGED <<carrierFile, secretFile, secretLength, outputImage, outputFile,
                   carrierImage, stegoImage, imageSize, secretData, secretSize,
                   bitIndex, i, byte_i, currentByte, encodeResult, decodeResult>>
    /\ UNCHANGED <<guiVars, runVars>>

\* the payload loop, MaxStray accesses past the image, runs on: to its end,
\* or to a later access outside the image that ends the process, the image
\* in memory lost with it
EncodeRunOn ==
    /\ pc = "encPayload"
    /\ AtStray
    /\ StrayCount = MaxStray
    /\ \E ends \in BOOLEAN :
          IF ends
          THEN /\ carrierImage' = NoImage
               /\ bitIndex' = Gone
               /\ pc' = "crashed"
          ELSE /\ carrierImage' =
                     EmbedWide(carrierImage, secretSize, secretData, secretLength)
               /\ bitIndex' = MulAdd(secretSize, ByteBits, HeaderBits)
               /\ pc' = "encSave"
    /\ i' = 0
    /\ byte_i' = 0
    /\ UNCHANGED <<carrierFile, secretFile, secretLength, outputImage, outputFile,
                   stegoImage, imageSize, secretData, secretSize, currentByte,
                   encodeResult, decodeResult, trace>>
    /\ UNCHANGED <<guiVars, runVars>>

\* saveToFile(outputPath) and the return
EncodeSave ==
    /\ pc = "encSave"
    /\ \E saved \in BOOLEAN :
         IF saved
         THEN /\ outputImage' = carrierImage
              /\ encodeResult' = REncodeSuccess
         ELSE /\ outputImage' = outputImage
              /\ encodeResult' = ROutputWriteFailed
    /\ pc' = "encDone"
    /\ UNCHANGED <<carrierFile, secretFile, secretLength, outputFile, carrierImage, stegoImage,
                   imageSize, secretData, secretSize, bitIndex, i, byte_i,
                   currentByte, decodeResult, trace>>
    /\ UNCHANGED <<guiVars, runVars>>

(***************************************************************************)
(* Steganography::decode                                                   *)
(***************************************************************************)
\* the image files decode may be pointed at
StegoCandidates == {carrierFile} \cup (IF outputImage = NoImage THEN {} ELSE {outputImage})

\* loadFromFile fails
DecodeLoadFailed ==
    /\ pc \in {"idle", "encDone"}
    /\ decodeResult' = RStegoLoadFailed
    /\ pc' = "decDone"
    /\ UNCHANGED <<carrierFile, secretFile, secretLength, outputImage, outputFile, carrierImage,
                   stegoImage, imageSize, secretData, secretSize, bitIndex, i,
                   byte_i, currentByte, encodeResult, trace>>
    /\ UNCHANGED <<guiVars, runVars>>

\* the image loads; the locals of decode
DecodeBegin ==
    /\ pc \in {"idle", "encDone"}
    /\ \E file \in StegoCandidates :
         /\ stegoImage' = file
         /\ imageSize' = file.size
    /\ bitIndex' = ToUnsigned(0, Bytes32)
    /\ secretSize' = ToUnsigned(0, Bytes32)
    /\ secretData' = <<>>
    /\ i' = 0
    /\ byte_i' = 0
    /\ currentByte' = 0
    /\ trace' = <<>>
    /\ decodeResult' = NoResult
    /\ pc' = "decHeader"
    /\ UNCHANGED <<carrierFile, secretFile, secretLength, outputImage, outputFile, carrierImage,
                   encodeResult>>
    /\ UNCHANGED <<guiVars, runVars>>

\* for (int i = 0; i < 32; ++i): read a bit into secretSize
DecodeHeaderBit ==
    /\ pc = "decHeader"
    /\ i < HeaderBits
    /\ LET x == PosX(bitIndex, imageSize)
           y == PosY(bitIndex, imageSize)
       IN  /\ \E color \in getPixel(stegoImage, x, y) :
                secretSize' = IF ExtractFromColor(color, bitIndex) = 1
                              THEN OrBit32(secretSize, i) ELSE secretSize
           /\ trace' = Append(trace, <<x, y, Channel(bitIndex)>>)
    /\ bitIndex' = NextIndex(bitIndex)
    /\ i' = i + 1
    /\ pc' = IF i + 1 < HeaderBits THEN pc ELSE "decCheck"
    /\ UNCHANGED <<carrierFile, secretFile, secretLength, outputImage, outputFile, carrierImage,
                   stegoImage, imageSize, secretData, byte_i, currentByte,
                   encodeResult, decodeResult>>
    /\ UNCHANGED <<guiVars, runVars>>

\* a read outside the pixel array may also end the process
DecodeFault ==
    /\ pc \in {"decHeader", "decPayload"}
    /\ ~InImage(stegoImage, PosX(bitIndex, imageSize), PosY(bitIndex, imageSize))
    /\ trace' = Append(trace, <<PosX(bitIndex, imageSize), PosY(bitIndex, imageSize),
                                 Channel(bitIndex)>>)
    /\ pc' = "crashed"
    /\ UNCHANGED <<carrierFile, secretFile, secretLength, outputImage, outputFile, carrierImage,
                   stegoImage, imageSize, secretData, secretSize, bitIndex, i,
                   byte_i, currentByte, encodeResult, decodeResult>>
    /\ UNCHANGED <<guiVars, runVars>>

\* the sanity check and the zero-size return
DecodeCheck ==
    /\ pc = "decCheck"
    /\ IF InvalidSize(imageSize, secretSize)
       THEN /\ decodeResult' = RInvalidLength
            /\ pc' = "decDone"
       ELSE IF secretSize = ToUnsigned(0, Bytes32)
       THEN /\ decodeResult' = REmptyPayload
            /\ pc' = "decDone"
       ELSE /\ decodeResult' = decodeResult
            /\ pc' = "decPayload"
    /\ i' = 0
    /\ byte_i' = 0
    /\ currentByte' = 0
    /\ UNCHANGED <<carrierFile, secretFile, secretLength, outputImage, outputFile, carrierImage,
                   stegoImage, imageSize, secretData, secretSize, bitIndex,
                   encodeResult, trace>>
    /\ UNCHANGED <<guiVars, runVars>>

\* for (byte_i < secretSize) for (bit_i < 8): read a bit into currentByte
DecodePayloadBit ==
    /\ pc = "decPayload"
    /\ Less(ToUnsigned(byte_i, Bytes32), secretSize)
    /\ i < ByteBits
    /\ LET x == PosX(bitIndex, imageSize)
           y == PosY(bitIndex, imageSize)
       IN  /\ \E color \in getPixel(stegoImage, x, y) :
                LET byte == IF ExtractFromColor(color, bitIndex) = 1
                            THEN OrBitChar(currentByte, i) ELSE currentByte
                IN  IF i + 1 < ByteBits
                    THEN /\ currentByte' = byte
                         /\ secretData' = secretData
                    ELSE /\ currentByte' = 0
                         /\ secretData' = Append(secretData, byte)
           /\ trace' = Append(trace, <<x, y, Channel(bitIndex)>>)
    /\ bitIndex' = NextIndex(bitIndex)
    /\ IF i + 1 < ByteBits
       THEN /\ i' = i + 1
            /\ byte_i' = byte_i
            /\ pc' = pc
       ELSE /\ i' = 0
            /\ byte_i' = byte_i + 1
            /\ pc' = IF Less(ToUnsigned(byte_i + 1, Bytes32), secretSize)
                     THEN pc ELSE "decWrite"
    /\ UNCHANGED <<carrierFile, secretFile, secretLength, outputImage, outputFile, carrierImage,
                   stegoImage, imageSize, secretSize, encodeResult, decodeResult>>
    /\ UNCHANGED <<guiVars, runVars>>

\* the output file is created and written, or cannot be created
DecodeWrite ==
    /\ pc = "decWrite"
    /\ \E created \in BOOLEAN :
         IF created
         THEN /\ outputFile' = [written |-> TRUE,
                               bytes |-> [k \in 1..Len(secretData) |-> ToByte(secretData[k])]]
              /\ decodeResult' = RDecodeSuccess
         ELSE /\ outputFile' = outputFile
              /\ decodeResult' = RDecodeCreateFailed
    /\ pc' = "decDone"
    /\ UNCHANGED <<carrierFile, secretFile, secretLength, outputImage, carrierImage, stegoImage,
                   imageSize, secretData, secretSize, bitIndex, i, byte_i,
                   currentByte, encodeResult, trace>>
    /\ UNCHANGED <<guiVars, runVars>>

CodecNext ==
    \/ EncodeLoadFailed
    \/ EncodeSecretFailed
    \/ EncodeBegin
    \/ EncodeHeaderBit
    \/ EncodePayloadBit
    \/ EncodeFault
    \/ EncodeRunOn
    \/ EncodeSave
    \/ DecodeLoadFailed
    \/ DecodeBegin
    \/ DecodeHeaderBit
    \/ DecodeFault
    \/ DecodeCheck
    \/ DecodePayloadBit
    \/ DecodeWrite

(***************************************************************************)
(* The loops of encode and decode run to their end, as one call does.      *)
(* Of the first 2^32 passes, pass k (counted from 1 over both loops) works *)
(* with bitIndex = k - 1.                                                  *)
(***************************************************************************)
\* the pixel accesses of the first n passes
Accesses(size, n) ==
    [k \in 1..n |-> LET b == ToUnsigned(k - 1, Bytes32)
                    IN  <<PosX(b, size), PosY(b, size), Channel(b)>>]

\* encode: the bits embedded at the first n passes: 32 bits of secretSize, 8
\* of each byte
SecretBits(size32, data, n) ==
    [k \in 1..n |->
        IF k <= HeaderBits THEN BitOfUnsigned(size32, k - 1)
        ELSE BitOf(DataAt(data, ((k - HeaderBits - 1) \div ByteBits) + 1),
                   (k - HeaderBits - 1) % ByteBits)]

\* encode: the last pass among the accesses that writes channel c of pixel p,
\* 0 when none does
LastPassAt(accesses, p, c) ==
    LET passes == {k \in 1..Len(accesses) : accesses[k] = <<p[1], p[2], c>>}
    IN  IF passes = {} THEN 0 ELSE CHOOSE k \in passes : \A m \in passes : m <= k

\* encode: the image after the embedding loops: a channel no pass writes
\* keeps its value, the others carry the bit of the last pass that wrote them
\* (embedBit sets the low bit whatever it was)
EmbedAll(image, bits) ==
    LET accesses == Accesses(image.size, Len(bits))
    IN  [image EXCEPT !.pixels =
            [p \in DOMAIN @ |->
                [c \in 1..3 |->
                    LET k == LastPassAt(accesses, p, c - 1)
                    IN  IF k = 0 THEN @[p][c] ELSE embedBit(@[p][c], bits[k])]]]

\* decode: the passes of the header loop that read outside the pixel array
OutPasses(image) ==
    {k \in 1..HeaderBits :
        LET b == ToUnsigned(k - 1, Bytes32)
        IN  ~InImage(image, PosX(b, image.size), PosY(b, image.size))}

\* decode: the bit read at pass k; out of range it comes from the colour g[k]
ReadBit(image, k, g) ==
    LET b == ToUnsigned(k - 1, Bytes32)
        x == PosX(b, image.size)
        y == PosY(b, image.size)
    IN  IF InImage(image, x, y)
        THEN ExtractFromColor(image.pixels[<<x, y>>], b)
        ELSE ExtractFromColor(g[k], b)

\* decode: secretSize after the first n passes of the header loop
RECURSIVE HeaderAfter(_, _, _)
HeaderAfter(image, n, g) ==
    IF n = 0 THEN ToUnsigned(0, Bytes32)
    ELSE CHOOSE new \in {IF ReadBit(image, n, g) = 1 THEN OrBit32(old, n - 1) ELSE old :
                         old \in {HeaderAfter(image, n - 1, g)}} : TRUE

\* decode: currentByte of payload byte j (from 1) after its first n bits
RECURSIVE ByteAfter(_, _, _)
ByteAfter(image, j, n) ==
    IF n = 0 THEN 0
    ELSE CHOOSE new \in {IF ReadBit(image, HeaderBits + ByteBits * (j - 1) + n,
                                    [k \in {} |-> <<0, 0, 0>>]) = 1
                         THEN OrBitChar(old, n - 1) ELSE old :
                         old \in {ByteAfter(image, j, n - 1)}} : TRUE

\* decode: secretData after the payload loop, for a size that passed the check
\* (the concatenation makes the vector a sequence)
PayloadOf(image, size32) ==
    [j \in 1..ToInt(size32) |-> ByteAfter(image, j, ByteBits)] \o <<>>

(***************************************************************************)
(* main(): the window, its fixed-size character buffers and its buttons.   *)
(* The names typed into the two output fields name no carrier or secret    *)
(* file, and the two fields name different files.                          *)
(***************************************************************************)
\* char carrierPath[256] and the five buffers after it
BufferSize == 256

\* lengths of the paths the file dialog returns: of image files, of secret files
PathLengths == {9, 256}
SecretPathLengths == {9, 256}
\* lengths of the texts typed into the two output path fields
TypedLengths == {0, 230}
DataNameLengths == {0, 230}

\* a path of the given length whose file name starts with the given letter
PathOfLength(letter, n) ==
    [k \in 1..n |-> IF k = 1 THEN 47 ELSE IF k = 2 THEN letter
                    ELSE IF k > n - 4 THEN <<46, 112, 110, 103>>[k - n + 4]
                    ELSE 97 + (k % 26)]

\* a typed file name of the given length ending in ".png", or nothing typed
TextOfLength(n) ==
    [k \in 1..n |-> IF k > n - 4 THEN <<46, 112, 110, 103>>[k - n + 4]
                    ELSE 97 + (k % 26)]

\* a typed file name of the given length ending in ".bin", or nothing typed
DataNameOfLength(n) ==
    [k \in 1..n |-> IF k > n - 4 THEN <<46, 98, 105, 110>>[k - n + 4]
                    ELSE 97 + (k % 26)]

\* the image files and the secret files the dialogs offer
CarrierNames == {PathOfLength(99, n) : n \in PathLengths}
SecretNames == {PathOfLength(115, n) : n \in SecretPathLengths}

\* "output.png", "decoded_file", "Ready."
OutputPng == <<111, 117, 116, 112, 117, 116, 46, 112, 110, 103>>
DecodedFile == <<100, 101, 99, 111, 100, 101, 100, 95, 102, 105, 108, 101>>
Ready == <<82, 101, 97, 100, 121, 46>>

\* the characters (ASCII codes) of a result message
TextOf(r) ==
    CASE r = RCarrierLoadFailed ->
        <<69, 114, 114, 111, 114, 58, 32, 67, 111, 117, 108, 100, 32, 110,
          111, 116, 32, 108, 111, 97, 100, 32, 99, 97, 114, 114, 105, 101,
          114, 32, 105, 109, 97, 103, 101, 46>>
      [] r = RSecretReadFailed ->
        <<69, 114, 114, 111, 114, 58, 32, 67, 111, 117, 108, 100, 32, 110,
          111, 116, 32, 111, 112, 101, 110, 32, 115, 101, 99, 114, 101, 116,
          32, 102, 105, 108, 101, 46>>
      [] r = RInsufficientCapacity ->
        <<69, 114, 114, 111, 114, 58, 32, 67, 97, 114, 114, 105, 101, 114,
          32, 105, 109, 97, 103, 101, 32, 105, 115, 32, 116, 111, 111, 32,
          115, 109, 97, 108, 108, 32, 116, 111, 32, 104, 111, 108, 100, 32,
          116, 104, 101, 32, 115, 101, 99, 114, 101, 116, 32, 100, 97, 116,
          97, 46>>
      [] r = ROutputWriteFailed ->
        <<69, 114, 114, 111, 114, 58, 32, 70, 97, 105, 108, 101, 100, 32,
          116, 111, 32, 115, 97, 118, 101, 32, 116, 104, 101, 32, 111, 117,
          116, 112, 117, 116, 32, 105, 109, 97, 103, 101, 46, 32, 69, 110,
          115, 117, 114, 101, 32, 105, 116, 39, 115, 32, 97, 32, 46, 112,
          110, 103, 32, 102, 105, 108, 101, 46>>
      [] r = REncodeSuccess ->
        <<83, 117, 99, 99, 101, 115, 115, 33, 32, 68, 97, 116, 97, 32, 101,
          110, 99, 111, 100, 101, 100, 32, 97, 110, 100, 32, 115, 97, 118,
          101, 100, 32, 116, 111, 32>>
      [] r = RStegoLoadFailed ->
        <<69, 114, 114, 111, 114, 58, 32, 67, 111, 117, 108, 100, 32, 110,
          111, 116, 32, 108, 111, 97, 100, 32, 116, 104, 101, 32, 115, 116,
          101, 103, 97, 110, 111, 103, 114, 97, 112, 104, 105, 99, 32, 105,
          109, 97, 103, 101, 46>>
      [] r = RInvalidLength ->
        <<69, 114, 114, 111, 114, 58, 32, 68, 101, 99, 111, 100, 101, 100,
          32, 115, 105, 122, 101, 32, 105, 115, 32, 105, 110, 118, 97, 108,
          105, 100, 32, 111, 114, 32, 108, 97, 114, 103, 101, 114, 32, 116,
          104, 97, 110, 32, 105, 109, 97, 103, 101, 32, 99, 97, 112, 97, 99,
          105, 116, 121, 46>>
      [] r = REmptyPayload ->
        <<87, 97, 114, 110, 105, 110, 103, 58, 32, 68, 101, 99, 111, 100,
          101, 100, 32, 115, 105, 122, 101, 32, 105, 115, 32, 48, 46, 32, 78,
          111, 116, 104, 105, 110, 103, 32, 116, 111, 32, 101, 120, 116, 114,
          97, 99, 116, 46>>
      [] r = RDecodeCreateFailed ->
        <<69, 114, 114, 111, 114, 58, 32, 67, 111, 117, 108, 100, 32, 110,
          111, 116, 32, 99, 114, 101, 97, 116, 101, 32, 111, 117, 116, 112,
          117, 116, 32, 102, 105, 108, 101, 32, 102, 111, 114, 32, 100, 101,
          99, 111, 100, 101, 100, 32, 100, 97, 116, 97, 46>>
      [] r = RDecodeSuccess ->
        <<83, 117, 99, 99, 101, 115, 115, 33, 32, 68, 101, 99, 111, 100, 101,
          100, 32, 100, 97, 116, 97, 32, 115, 97, 118, 101, 100, 32, 116,
          111, 32>>

\* char buf[256] = "text": the text, the rest of the array zero
ArrayOf(text) == [k \in 1..BufferSize |-> IF k <= Len(text) THEN text[k] ELSE 0]

\* strncpy(dest, src, 256): the first 256 characters of src, NUL padding after a
\* shorter src, and no NUL at all after a src of 256 characters or more
strncpy(src) == [k \in 1..BufferSize |-> IF k <= Len(src) THEN src[k] ELSE 0]

\* the buffer holds a NUL
Terminated(buf) == \E k \in 1..BufferSize : buf[k] = 0

\* strlen within the array: the index of the first NUL, 256 when there is none
LengthIn(buf) ==
    IF Terminated(buf)
    THEN CHOOSE n \in 0..(BufferSize - 1) :
            buf[n + 1] = 0 /\ \A k \in 1..n : buf[k] # 0
    ELSE BufferSize

\* the characters before the first NUL, or the whole array when it holds none
UpToNul(buf) == [k \in 1..LengthIn(buf) |-> buf[k]]

\* std::string(const char*): the C string a buffer holds; without a NUL in the
\* array the read runs on into whatever lies behind it
StringsOf(buf) ==
    IF Terminated(buf) THEN {UpToNul(buf)}
    ELSE {UpToNul(buf), UpToNul(buf) \o <<63>>}

\* ImGui::InputText(label, buf, 256): the typed text and its NUL, at most 255
\* characters; the bytes behind the NUL stay
InputText(buf, text) ==
    [k \in 1..BufferSize |->
        IF k <= Len(text) THEN text[k] ELSE IF k = Len(text) + 1 THEN 0 ELSE buf[k]]


\* the text encode or decode returns: the message, then the path on success
ResultText(r, output) ==
    IF r \in {REncodeSuccess, RDecodeSuccess} THEN TextOf(r) \o output ELSE TextOf(r)

\* a letter in lower case
ToLower(c) == IF c >= 65 /\ c <= 90 THEN c + 32 ELSE c

\* the part of a file name behind its last dot, in lower case
Extension(name) ==
    LET dots == {k \in 1..Len(name) : name[k] = 46}
    IN  IF dots = {} THEN <<>>
        ELSE LET d == CHOOSE k \in dots : \A m \in dots : m <= k
             IN  [k \in 1..(Len(name) - d) |-> ToLower(name[d + k])]

\* saveToFile(outputPath): the extension names the format; "bmp", "png", "tga"
\* keep every pixel, "jpg" and "jpeg" do not
Lossless(name) ==
    Extension(name) \in {<<98, 109, 112>>, <<112, 110, 103>>, <<116, 103, 97>>}
Lossy(name) ==
    Extension(name) \in {<<106, 112, 103>>, <<106, 112, 101, 103>>}

\* the images saveToFile leaves on disk when it can write the file it is to
\* encode; none when the name has no extension it knows
SavedImages(image, name) ==
    IF Lossless(name) THEN {image}
    ELSE IF Lossy(name)
    THEN {image} \cup {[image EXCEPT !.pixels = [p \in DOMAIN @ |-> c]] : c \in GarbageColors}
    ELSE {}

\* loadFromFile(path): the image the path names, if it names one
ImagesAt(path) == IF path \in DOMAIN files THEN {files[path]} ELSE {}

\* std::ifstream(secretPath): the secret file the path names, if it names one
SecretsAt(path) ==
    IF path \in SecretNames THEN {[lead |-> secretFile, length |-> secretLength]}
    ELSE {}

\* the process is alive
Running == pc # "crashed"

\* the window handles one more button press or text edit
Handle ==
    /\ Running
    /\ events < MaxEvents
    /\ events' = events + 1

GuiInit ==
    /\ carrierPath = ArrayOf(<<>>)
    /\ secretPath = ArrayOf(<<>>)
    /\ encodeOutputPath = ArrayOf(OutputPng)
    /\ stegoPath = ArrayOf(<<>>)
    /\ decodeOutputPath = ArrayOf(DecodedFile)
    /\ status = ArrayOf(Ready)
    /\ files = [name \in CarrierNames |-> carrierFile]
    /\ events = 0

\* "...##1": a carrier image is picked
ChooseCarrier ==
    /\ Handle
    /\ \E path \in CarrierNames : carrierPath' = strncpy(path)
    /\ UNCHANGED <<secretPath, encodeOutputPath, stegoPath, decodeOutputPath, status,
                   files>>
    /\ UNCHANGED <<codecVars, runVars>>

\* "...##2": a secret file is picked
ChooseSecret ==
    /\ Handle
    /\ \E path \in SecretNames : secretPath' = strncpy(path)
    /\ UNCHANGED <<carrierPath, encodeOutputPath, stegoPath, decodeOutputPath, status,
                   files>>
    /\ UNCHANGED <<codecVars, runVars>>

\* "...##3": a stego image is picked: a carrier file or an image encode saved
ChooseStego ==
    /\ Handle
    /\ \E path \in DOMAIN files : stegoPath' = strncpy(path)
    /\ UNCHANGED <<carrierPath, secretPath, encodeOutputPath, decodeOutputPath, status,
                   files>>
    /\ UNCHANGED <<codecVars, runVars>>

\* "Output Image Path" is edited
EditEncodeOutput ==
    /\ Handle
    /\ \E n \in TypedLengths :
          encodeOutputPath' = InputText(encodeOutputPath, TextOfLength(n))
    /\ UNCHANGED <<carrierPath, secretPath, stegoPath, decodeOutputPath, status,
                   files>>
    /\ UNCHANGED <<codecVars, runVars>>

\* "Decoded File Path" is edited
EditDecodeOutput ==
    /\ Handle
    /\ \E n \in DataNameLengths :
          decodeOutputPath' = InputText(decodeOutputPath, DataNameOfLength(n))
    /\ UNCHANGED <<carrierPath, secretPath, encodeOutputPath, stegoPath, status,
                   files>>
    /\ UNCHANGED <<codecVars, runVars>>

\* Steganography::encode(carrierPath, secretPath, outputPath), the whole call;
\* an access outside the pixel array goes by or ends the process: any of the
\* first MaxStray + 1 of them, followed to that pass, or a later one
EncodeCall(carrier, secret, output) ==
    /\ IF ImagesAt(carrier) = {}
       THEN /\ encodeResult' = RCarrierLoadFailed
            /\ pc' = "encDone"
            /\ UNCHANGED <<carrierImage, imageSize, secretData, secretSize, bitIndex,
                           i, byte_i, trace, outputImage, files>>
       ELSE \E image \in ImagesAt(carrier) :
          IF SecretsAt(secret) = {}
          THEN /\ carrierImage' = image
               /\ encodeResult' = RSecretReadFailed
               /\ pc' = "encDone"
               /\ UNCHANGED <<imageSize, secretData, secretSize, bitIndex,
                              i, byte_i, trace, outputImage, files>>
          ELSE \E file \in SecretsAt(secret) :
             \E data \in {CharsOf(file.lead)}, size32 \in {Narrow(file.length)},
                first \in {FirstStray(image.size, file.length)} :
                 /\ imageSize' = image.size
                 /\ secretData' = data
                 /\ secretSize' = size32
                 /\ IF TooSmall(image.size, size32)
                    THEN /\ carrierImage' = image
                         /\ bitIndex' = ToUnsigned(0, Bytes32)
                         /\ i' = 0
                         /\ byte_i' = 0
                         /\ trace' = <<>>
                         /\ encodeResult' = RInsufficientCapacity
                         /\ pc' = "encDone"
                         /\ UNCHANGED <<outputImage, files>>
                    ELSE \/ /\ first > 0
                            /\ \E c \in first..(first + MaxStray + 1) :
                                  IF c <= first + MaxStray
                                  THEN /\ bitIndex' = ToUnsigned(c - 1, Bytes32)
                                       /\ i' = (c - 1 - HeaderBits) % ByteBits
                                       /\ byte_i' =
                                             ((c - 1 - HeaderBits) \div ByteBits) + 1
                                       /\ trace' = Accesses(image.size, c)
                                       /\ carrierImage' =
                                             EmbedAll(image,
                                                SecretBits(size32, data, first - 1))
                                  ELSE /\ bitIndex' = Gone
                                       /\ i' = 0
                                       /\ byte_i' = 0
                                       /\ trace' = Accesses(image.size, c - 2)
                                       /\ carrierImage' = NoImage
                            /\ encodeResult' = NoResult
                            /\ pc' = "crashed"
                            /\ UNCHANGED <<outputImage, files>>
                         \/ \E embedded \in
                               {IF first = 0
                                THEN EmbedAll(image,
                                        SecretBits(size32, data,
                                           HeaderBits + ByteBits * ToInt(file.length)))
                                ELSE EmbedWide(image, size32, data, file.length)} :
                              /\ carrierImage' = embedded
                              /\ bitIndex' = MulAdd(size32, ByteBits, HeaderBits)
                              /\ i' = 0
                              /\ byte_i' = 0
                              /\ trace' =
                                    Accesses(image.size,
                                       IF first = 0
                                       THEN HeaderBits + ByteBits * ToInt(file.length)
                                       ELSE first - 1 + MaxStray)
                              /\ pc' = "encDone"
                              /\ \E opened \in BOOLEAN :
                                 \E saved \in {IF opened
                                               THEN SavedImages(embedded, output)
                                               ELSE {}} :
                                   IF saved = {}
                                   THEN /\ encodeResult' = ROutputWriteFailed
                                        /\ UNCHANGED <<outputImage, files>>
                                   ELSE \E written \in saved :
                                          /\ outputImage' = written
                                          /\ files' =
                                                [name \in DOMAIN files \cup {output} |->
                                                   IF name = output THEN written
                                                   ELSE files[name]]
                                          /\ encodeResult' = REncodeSuccess
    /\ UNCHANGED <<carrierFile, secretFile, secretLength, outputFile, stegoImage,
                   currentByte, decodeResult>>

\* Steganography::decode(stegoPath, outputPath), the whole call; a read outside
\* the pixel array returns anything or ends the process
DecodeCall(stego, output) ==
    /\ IF ImagesAt(stego) = {}
       THEN /\ decodeResult' = RStegoLoadFailed
            /\ pc' = "decDone"
            /\ UNCHANGED <<stegoImage, imageSize, secretData, secretSize, bitIndex,
                           i, byte_i, currentByte, trace, outputFile, files>>
       ELSE \E image \in ImagesAt(stego) :
          \E g \in [OutPasses(image) -> GarbageColors] :
             /\ stegoImage' = image
             /\ imageSize' = image.size
             /\ currentByte' = 0
             /\ \/ \E c \in OutPasses(image) :
                      /\ secretSize' = HeaderAfter(image, c - 1, g)
                      /\ bitIndex' = ToUnsigned(c - 1, Bytes32)
                      /\ i' = c - 1
                      /\ byte_i' = 0
                      /\ secretData' = <<>>
                      /\ trace' = Accesses(image.size, c)
                      /\ decodeResult' = NoResult
                      /\ pc' = "crashed"
                      /\ UNCHANGED <<outputFile, files>>
                \/ \E size32 \in {HeaderAfter(image, HeaderBits, g)} :
                      /\ secretSize' = size32
                      /\ i' = 0
                      /\ pc' = "decDone"
                      /\ IF InvalidSize(image.size, size32)
                            \/ size32 = ToUnsigned(0, Bytes32)
                         THEN /\ bitIndex' = ToUnsigned(HeaderBits, Bytes32)
                              /\ byte_i' = 0
                              /\ secretData' = <<>>
                              /\ trace' = Accesses(image.size, HeaderBits)
                              /\ decodeResult' = IF InvalidSize(image.size, size32)
                                                 THEN RInvalidLength ELSE REmptyPayload
                              /\ UNCHANGED <<outputFile, files>>
                         ELSE \E data \in {PayloadOf(image, size32)} :
                                /\ bitIndex' = ToUnsigned(HeaderBits + ByteBits * Len(data),
                                                          Bytes32)
                                /\ byte_i' = Len(data)
                                /\ secretData' = data
                                /\ trace' = Accesses(image.size,
                                                     HeaderBits + ByteBits * Len(data))
                                /\ \E created \in (IF output = <<>> THEN {FALSE}
                                                    ELSE BOOLEAN) :
                                   IF ~created
                                   THEN /\ decodeResult' = RDecodeCreateFailed
                                        /\ UNCHANGED <<outputFile, files>>
                                   ELSE /\ outputFile' =
                                             [written |-> TRUE,
                                              bytes |-> [k \in 1..Len(data) |->
                                                           ToByte(data[k])]]
                                        /\ files' = [name \in DOMAIN files \ {output}
                                                       |-> files[name]]
                                        /\ decodeResult' = RDecodeSuccess
    /\ UNCHANGED <<carrierFile, secretFile, secretLength, outputImage, carrierImage, encodeResult>>

\* "Encode": encode runs on the three paths and its result is copied into
\* status; std::string(buf) on a buffer without NUL reads past the array
PressEncode ==
    /\ Handle
    /\ \/ /\ ~Terminated(carrierPath) \/ ~Terminated(secretPath)
             \/ ~Terminated(encodeOutputPath)
          /\ pc' = "crashed"
          /\ UNCHANGED <<carrierFile, secretFile, secretLength, outputImage, outputFile, carrierImage,
                         stegoImage, imageSize, secretData, secretSize, bitIndex, i,
                         byte_i, currentByte, encodeResult, decodeResult, trace>>
          /\ UNCHANGED <<status, files>>
       \/ \E carrier \in StringsOf(carrierPath), secret \in StringsOf(secretPath),
             output \in StringsOf(encodeOutputPath) :
             /\ EncodeCall(carrier, secret, output)
             /\ IF pc' = "crashed" THEN status' = status
                ELSE \E result \in {ResultText(encodeResult', output)} :
                        status' = strncpy(result)
    /\ UNCHANGED <<carrierPath, secretPath, encodeOutputPath, stegoPath, decodeOutputPath>>
    /\ UNCHANGED runVars

\* "Decode": decode runs on the two paths and its result is copied into status
PressDecode ==
    /\ Handle
    /\ \/ /\ ~Terminated(stegoPath) \/ ~Terminated(decodeOutputPath)
          /\ pc' = "crashed"
          /\ UNCHANGED <<carrierFile, secretFile, secretLength, outputImage, outputFile, carrierImage,
                         stegoImage, imageSize, secretData, secretSize, bitIndex, i,
                         byte_i, currentByte, encodeResult, decodeResult, trace>>
          /\ UNCHANGED <<status, files>>
       \/ \E stego \in StringsOf(stegoPath), output \in StringsOf(decodeOutputPath) :
             /\ DecodeCall(stego, output)
             /\ IF pc' = "crashed" THEN status' = status
                ELSE \E result \in {ResultText(decodeResult', output)} :
                        status' = strncpy(result)
    /\ UNCHANGED <<carrierPath, secretPath, encodeOutputPath, stegoPath, decodeOutputPath>>
    /\ UNCHANGED runVars

\* a frame is drawn: InputText and TextWrapped("%s", status) read their buffer
\* as a C string, past the array when it holds no NUL
DrawFault ==
    /\ Running
    /\ \E buf \in {carrierPath, secretPath, stegoPath, status} : ~Terminated(buf)
    /\ pc' = "crashed"
    /\ UNCHANGED <<carrierFile, secretFile, secretLength, outputImage, outputFile, carrierImage,
                   stegoImage, imageSize, secretData, secretSize, bitIndex, i,
                   byte_i, currentByte, encodeResult, decodeResult, trace>>
    /\ UNCHANGED <<guiVars, runVars>>

GuiNext ==
    \/ ChooseCarrier
    \/ ChooseSecret
    \/ ChooseStego
    \/ EditEncodeOutput
    \/ EditDecodeOutput
    \/ PressEncode
    \/ PressDecode
    \/ DrawFault

(***************************************************************************)
(* The cursor of both codec loops on carriers and payloads of any size.    *)
(* The pixels and the payload bytes are left out; a step takes a whole run *)
(* of passes of a loop at once, each pass doing bitIndex++.                *)
(***************************************************************************)
\* carrier sizes: 27, 48, 4295142732 and 51539607552 slots
CursorDims == {<<3, 3>>, <<4, 4>>, <<37838, 37838>>, <<131072, 131072>>}
\* header values (decode), as uint32_t: 0, 1, 2, 2^29 - 4, 2^29 - 3, 2^29,
\* 2^32 - 1
CursorSizes == {<<0, 0, 0, 0>>, <<1, 0, 0, 0>>, <<2, 0, 0, 0>>, <<252, 255, 255, 31>>,
                <<253, 255, 255, 31>>, <<0, 0, 0, 32>>, <<255, 255, 255, 255>>}
\* lengths of the secret file (encode), as size_t: those, 2^32 and 2^32 + 1
CursorLengths == {Widen(n) : n \in CursorSizes}
                 \cup {<<0, 0, 0, 0, 1, 0, 0, 0>>, <<1, 0, 0, 0, 1, 0, 0, 0>>}
\* how many payload bytes a step may take: 2^27 - 4, 2^27
RunLengths == {134217724, 134217728}

\* k times bitIndex++ on an unsigned int (k below 2^31)
AdvanceIndex(b, k) == MulAdd(b, 1, k)

\* a - b for two 64-bit counts with b <= a, when it is below 2^30, else 2^30
Remaining(a, b) ==
    IF UpperHalf(Minus(a, b)) # ToUnsigned(0, Bytes32) \/ Minus(a, b)[Bytes32] >= 64
    THEN 1073741824 ELSE ToInt(Narrow(Minus(a, b)))

\* the next n passes (0 < n <= 2^30) from bitIndex b: some of them work
\* outside the image
StrayIn(size, b, n) ==
    ~Less(TopIndex(MulAdd(Widen(b), 1, n - 1)), Capacity(size))

\* the passes before the first of them that works outside the image
PassesInside(size, b) ==
    IF Less(Widen(b), Capacity(size)) THEN Remaining(Capacity(size), Widen(b)) ELSE 0

\* how the next n passes go: all are made ("on"), or, when some of them work
\* outside the image, the process ends at the first of those ("first") or at
\* a later one ("later")
Faults(size, b, n) ==
    IF StrayIn(size, b, n) THEN {"on", "first", "later"} ELSE {"on"}

\* leading bytes of the secret files of the cursor runs
CursorLeads == {<<65>>, <<253>>}

\* the LSB of slot s after encode has made the next n passes (n <= 2^30) from
\* bitIndex b, having made done passes before: the bit of the pass that
\* works with bitIndex = s, if one of the n does
SlotBitAfter(header, s, b, n, done, size32, data) ==
    LET before == Minus(ToUnsigned(s, Bytes32), b)
    IN  IF Less(before, ToUnsigned(n, Bytes32))
        THEN BitAtPass(MulAdd(done, 1, ToInt(before)), size32, data)
        ELSE BitOfUnsigned(header, s)

\* the LSBs of slots 0..31 after those passes
HeaderSlotsAfter(header, b, n, done, size32, data) ==
    [k \in 1..Bytes32 |->
        LET bit(j) == SlotBitAfter(header, 8 * (k - 1) + j, b, n, done, size32, data)
        IN  bit(0) + 2 * bit(1) + 4 * bit(2) + 8 * bit(3) + 16 * bit(4)
            + 32 * bit(5) + 64 * bit(6) + 128 * bit(7)]

RunInit ==
    /\ runOp = "none"
    /\ runSize = <<0, 0>>
    /\ runSecretSize = ToUnsigned(0, Bytes32)
    /\ runDataSize = ToUnsigned(0, Bytes64)
    /\ runBitIndex = ToUnsigned(0, Bytes32)
    /\ runBytes = ToUnsigned(0, Bytes64)
    /\ runBits = ToUnsigned(0, Bytes64)
    /\ runLead = <<>>
    /\ runHeader = ToUnsigned(0, Bytes32)
    /\ runEmbedded = <<>>
    /\ runPc = "idle"

\* the process ends at an access outside the image: at the first among the
\* next passes, or at a later one, which is not followed
RunStops(how) ==
    /\ IF how = "first"
       THEN LET inside == PassesInside(runSize, runBitIndex)
            IN  /\ runBitIndex' = AdvanceIndex(runBitIndex, inside)
                /\ runBits' = MulAdd(runBits, 1, inside)
                /\ runBytes' = IF runPc = "payload"
                                THEN MulAdd(runBytes, 1, inside \div ByteBits)
                                ELSE runBytes
       ELSE /\ runBitIndex' = Gone
            /\ runBits' = Gone
            /\ runBytes' = Gone
    /\ runHeader' = Gone
    /\ runPc' = "crashed"

\* encode up to the capacity check: secretSize is the length cut to 32 bits
RunEncodeBegin ==
    /\ runPc = "idle"
    /\ \E size \in CursorDims, n \in CursorLengths :
          /\ runSize' = size
          /\ runDataSize' = n
          /\ runSecretSize' = Narrow(n)
          /\ \E lead \in (IF n = ToUnsigned(0, Bytes64) THEN {<<>>} ELSE CursorLeads) :
                runLead' = CharsOf(lead)
          /\ runPc' = IF TooSmall(size, Narrow(n)) THEN "rejected" ELSE "header"
    /\ \E lsbs \in {<<255, 255, 255, 255>>} : runHeader' = lsbs
    /\ runOp' = "encode"
    /\ runBitIndex' = ToUnsigned(0, Bytes32)
    /\ runBytes' = ToUnsigned(0, Bytes64)
    /\ runBits' = ToUnsigned(0, Bytes64)
    /\ UNCHANGED runEmbedded
    /\ UNCHANGED <<codecVars, guiVars>>

\* decode of some image, up to its first loop; secretSize is read by that loop
RunDecodeBegin ==
    /\ runPc = "idle"
    /\ \E size \in CursorDims : runSize' = size
    /\ \E lsbs \in CursorSizes : runHeader' = lsbs
    /\ runEmbedded' = <<>>
    /\ runSecretSize' = ToUnsigned(0, Bytes32)
    /\ runDataSize' = ToUnsigned(0, Bytes64)
    /\ runOp' = "decode"
    /\ runBitIndex' = ToUnsigned(0, Bytes32)
    /\ runBytes' = ToUnsigned(0, Bytes64)
    /\ runBits' = ToUnsigned(0, Bytes64)
    /\ runPc' = "header"
    /\ UNCHANGED runLead
    /\ UNCHANGED <<codecVars, guiVars>>

\* decode of the image a finished encode has saved, up to its first loop
RunDecodeSaved ==
    /\ runPc = "done"
    /\ runOp = "encode"
    /\ runEmbedded' = runDataSize
    /\ runSecretSize' = ToUnsigned(0, Bytes32)
    /\ runDataSize' = ToUnsigned(0, Bytes64)
    /\ runOp' = "decode"
    /\ runBitIndex' = ToUnsigned(0, Bytes32)
    /\ runBytes' = ToUnsigned(0, Bytes64)
    /\ runBits' = ToUnsigned(0, Bytes64)
    /\ runPc' = "header"
    /\ UNCHANGED <<runSize, runLead, runHeader>>
    /\ UNCHANGED <<codecVars, guiVars>>

\* the 32 passes of the header loop of encode
RunEncodeHeader ==
    /\ runPc = "header"
    /\ runOp = "encode"
    /\ \E how \in Faults(runSize, runBitIndex, HeaderBits) :
          IF how # "on" THEN RunStops(how)
          ELSE /\ runBitIndex' = AdvanceIndex(runBitIndex, HeaderBits)
               /\ runBits' = MulAdd(runBits, 1, HeaderBits)
               /\ runBytes' = runBytes
               /\ runHeader' = HeaderSlotsAfter(runHeader, runBitIndex, HeaderBits,
                                                 runBits, runSecretSize, runLead)
               /\ runPc' = IF runDataSize = ToUnsigned(0, Bytes64)
                           THEN "done" ELSE "payload"
    /\ UNCHANGED <<runOp, runSize, runSecretSize, runDataSize, runLead, runEmbedded>>
    /\ UNCHANGED <<codecVars, guiVars>>

\* the uint32_t whose set bits are those of the set: secretSize |= (1 << i)
\* for every i of it
BitsValue(set) ==
    [k \in 1..Bytes32 |->
        LET bit(j) == IF (8 * (k - 1) + j) \in set THEN 1 ELSE 0
        IN  bit(0) + 2 * bit(1) + 4 * bit(2) + 8 * bit(3) + 16 * bit(4)
            + 32 * bit(5) + 64 * bit(6) + 128 * bit(7)]

\* the passes of the header loop of decode, and the checks after it: pass i
\* inside the image reads the LSB of slot i into bit i of secretSize; a pass
\* outside the image reads anything into its bit, or ends the process
RunDecodeHeader ==
    /\ runPc = "header"
    /\ runOp = "decode"
    /\ \E inside \in {IF StrayIn(runSize, runBitIndex, HeaderBits)
                       THEN PassesInside(runSize, runBitIndex) ELSE HeaderBits} :
          \E made \in inside..HeaderBits :
             \E strayOnes \in SUBSET (inside..(made - 1)) :
                \E n \in {BitsValue({s \in 0..(inside - 1) :
                                         BitOfUnsigned(runHeader, s) = 1}
                                     \cup strayOnes)} :
                   /\ runSecretSize' = n
                   /\ runDataSize' = Widen(n)
                   /\ runBitIndex' = AdvanceIndex(runBitIndex, made)
                   /\ runBits' = MulAdd(runBits, 1, made)
                   /\ runBytes' = runBytes
                   /\ IF made < HeaderBits
                      THEN /\ runHeader' = Gone
                           /\ runPc' = "crashed"
                      ELSE /\ runHeader' = runHeader
                           /\ runPc' = IF InvalidSize(runSize, n)
                                          \/ n = ToUnsigned(0, Bytes32)
                                       THEN "done" ELSE "payload"
    /\ UNCHANGED <<runOp, runSize, runLead, runEmbedded>>
    /\ UNCHANGED <<codecVars, guiVars>>

\* the next passes of the payload loop: up to m rounds, 8 pixel accesses each
RunPayload ==
    /\ runPc = "payload"
    /\ \E m \in RunLengths :
          \E left \in {Remaining(runDataSize, runBytes)} :
             \E take \in {IF m < left THEN m ELSE left} :
                \E how \in Faults(runSize, runBitIndex, ByteBits * take) :
                   IF how # "on" THEN RunStops(how)
                   ELSE /\ runBitIndex' = AdvanceIndex(runBitIndex, ByteBits * take)
                        /\ runBits' = MulAdd(runBits, 1, ByteBits * take)
                        /\ runBytes' = MulAdd(runBytes, 1, take)
                        /\ runHeader' =
                              IF runOp = "encode"
                              THEN HeaderSlotsAfter(runHeader, runBitIndex,
                                                    ByteBits * take, runBits,
                                                    runSecretSize, runLead)
                              ELSE runHeader
                        /\ runPc' = IF take = left THEN "done" ELSE "payload"
    /\ UNCHANGED <<runOp, runSize, runSecretSize, runDataSize, runLead, runEmbedded>>
    /\ UNCHANGED <<codecVars, guiVars>>

CursorNext ==
    \/ RunEncodeBegin
    \/ RunDecodeBegin
    \/ RunDecodeSaved
    \/ RunEncodeHeader
    \/ RunDecodeHeader
    \/ RunPayload

(***************************************************************************)
(* Specifications: the codec, the window, the cursor.                      *)
(***************************************************************************)
vars == <<codecVars, guiVars, runVars>>

\* a specification carries the part of the program it is about; the rest rests
CodecAtRest ==
    /\ carrierFile = NoImage
    /\ secretFile = <<>>
    /\ secretLength = ToUnsigned(0, Bytes64)
    /\ outputImage = NoImage
    /\ outputFile = NoFile
    /\ carrierImage = NoImage
    /\ stegoImage = NoImage
    /\ imageSize = <<0, 0>>
    /\ secretData = <<>>
    /\ secretSize = ToUnsigned(0, Bytes32)
    /\ bitIndex = ToUnsigned(0, Bytes32)
    /\ i = 0
    /\ byte_i = 0
    /\ currentByte = 0
    /\ encodeResult = NoResult
    /\ decodeResult = NoResult
    /\ pc = "idle"
    /\ trace = <<>>

GuiAtRest ==
    /\ carrierPath = <<>>
    /\ secretPath = <<>>
    /\ encodeOutputPath = <<>>
    /\ stegoPath = <<>>
    /\ decodeOutputPath = <<>>
    /\ status = <<>>
    /\ files = <<>>
    /\ events = 0

\* the codec: one encode and one decode on a carrier file
Init == CodecInit /\ GuiAtRest /\ RunInit
Next == CodecNext
Spec == Init /\ [][Next]_vars

\* the carrier files and the secret files the window finds on disk
GuiCarriers == {CarrierFile(<<4, 4>>, <<0, 0, 0, 0>>, 2),
                CarrierFile(<<4, 4>>, <<2, 0, 0, 0>>, 2),
                CarrierFile(<<5, 2>>, <<0, 0, 0, 0>>, 0)}
GuiSecrets == {[lead |-> <<128, 65>>, length |-> ToUnsigned(2, Bytes64)],
               [lead |-> <<170>>, length |-> <<1, 0, 0, 0, 1, 0, 0, 0>>]}

\* the disk before the window opens; no call of the codec made yet
GuiDisk ==
    /\ carrierFile \in GuiCarriers
    /\ \E file \in GuiSecrets : secretFile = file.lead /\ secretLength = file.length
    /\ outputImage = NoImage
    /\ outputFile = NoFile
    /\ carrierImage = NoImage
    /\ stegoImage = NoImage
    /\ imageSize = <<0, 0>>
    /\ secretData = <<>>
    /\ secretSize = ToUnsigned(0, Bytes32)
    /\ bitIndex = ToUnsigned(0, Bytes32)
    /\ i = 0
    /\ byte_i = 0
    /\ currentByte = 0
    /\ encodeResult = NoResult
    /\ decodeResult = NoResult
    /\ pc = "idle"
    /\ trace = <<>>

\* the window: its buttons and text fields, and the codec calls they make
GuiStart == GuiDisk /\ GuiInit /\ RunInit
GuiSpec == GuiStart /\ [][GuiNext]_vars

\* the cursor of both loops on carriers of any size
CursorStart == RunInit /\ CodecAtRest /\ GuiAtRest
CursorSpec == CursorStart /\ [][CursorNext]_vars

(***************************************************************************)
(* Vocabulary of the properties: slots and capacities as plain numbers.    *)
(***************************************************************************)
CapacityBits(size) == size[1] * size[2] * 3
NeededBits(n) == 32 + 8 * n
SlotX(s, size) == (s \div 3) % size[1]
SlotY(s, size) == (s \div 3) \div size[1]
SlotByte(image, s) ==
    image.pixels[<<SlotX(s, image.size), SlotY(s, image.size)>>][(s % 3) + 1]
SlotLsb(image, s) == SlotByte(image, s) % 2
Slots(image) == 0..(CapacityBits(image.size) - 1)
\* bit j of a file byte or of a small length
PlainBit(v, j) == IF j < 16 THEN (v \div (2 ^ j)) % 2 ELSE 0
\* the k-th access (k from 1) of the running call went to slot k - 1
TraceFollowsSlots ==
    \A k \in 1..Len(trace) :
        trace[k] = <<SlotX(k - 1, imageSize), SlotY(k - 1, imageSize), (k - 1) % 3>>
\* the secret file is a payload: at most 2^32 - 1 bytes long
PayloadInDomain == UpperHalf(secretLength) = ToUnsigned(0, Bytes32)
\* encode ran to its end with both input files read, the secret a payload
Embedded == PayloadInDomain /\ encodeResult \in {REncodeSuccess, ROutputWriteFailed}
\* encode saved its image, the secret a payload
Saved == PayloadInDomain /\ encodeResult = REncodeSuccess
\* decode was pointed at the image a successful encode saved
DecodingOutput ==
    /\ PayloadInDomain
    /\ stegoImage # NoImage
    /\ outputImage # NoImage
    /\ stegoImage = outputImage
\* the low 27 bits, and the top 5 bits, of the length in the first 32 slots
HeaderLow(image) ==
    LET RECURSIVE Sum(_)
        Sum(s) == IF s = 27 THEN 0 ELSE SlotLsb(image, s) + 2 * Sum(s + 1)
    IN  Sum(0)
HeaderHigh(image) == \E s \in 27..31 : SlotLsb(image, s) = 1
\* 32 + 8 * n exceeds the capacity, n the length in the first 32 slots
HeaderExceeds(image) ==
    HeaderHigh(image) \/ NeededBits(HeaderLow(image)) > CapacityBits(image.size)

(***************************************************************************)
(* C1 Round trip: decoding the image saved by a successful encode of a     *)
(* payload of n bytes, 1 <= n <= 2^32 - 1 and 32 + 8 * n <= W * H * 3,     *)
(* yields exactly the payload: the length decode reads from the first 32   *)
(* slots, which is the number of bytes it goes on to extract, is n.        *)
(***************************************************************************)
RoundTripLength ==
    (runOp = "decode"
       /\ runPc \in {"payload", "done"}
       /\ runEmbedded # <<>>
       /\ runEmbedded # ToUnsigned(0, Bytes64)
       /\ UpperHalf(runEmbedded) = ToUnsigned(0, Bytes32)) =>
        runSecretSize = Narrow(runEmbedded)

\* encode of 2^29 - 3 bytes, each 0x41, into a 37838 x 37838 carrier passes
\* the check (2^32 + 8 <= 4295142732); bitIndex wraps after 2^32 passes and
\* the last byte goes to slots 0..7: decode reads 0x1FFFFF41, not 0x1FFFFFFD
RoundTripWraps ==
    /\ runOp = "decode"
    /\ runPc = "payload"
    /\ runSize = <<37838, 37838>>
    /\ runEmbedded = ToUnsigned(536870909, Bytes64)
    /\ runSecretSize = <<65, 255, 255, 31>>

\* the part of C1 that holds, for the payloads of at most MaxLen bytes that
\* are followed pixel by pixel (32 + 8 * n stays below 2^32, so bitIndex does
\* not wrap): decoding the saved image does not fail on the length, recovers
\* the payload bytes in order (and writes them when the output file can be
\* created), and the saved image has the carrier's width and height
RoundTrip ==
    /\ outputImage # NoImage => outputImage.size = carrierFile.size
    /\ (DecodingOutput /\ Len(secretFile) >= 1) =>
          /\ pc # "crashed"
          /\ pc = "decDone" =>
                /\ decodeResult \in {RDecodeSuccess, RDecodeCreateFailed}
                /\ Len(secretData) = Len(secretFile)
                /\ \A k \in 1..Len(secretFile) : ToByte(secretData[k]) = secretFile[k]
                /\ decodeResult = RDecodeSuccess =>
                      outputFile = [written |-> TRUE, bytes |-> secretFile]

\* such a round trip
RoundTripWitness ==
    /\ pc = "decDone"
    /\ DecodingOutput
    /\ secretFile = <<128, 65>>
    /\ decodeResult = RDecodeSuccess
    /\ outputFile.bytes = <<128, 65>>

(***************************************************************************)
(* C2 Capacity boundary: with both files read, the secret a payload of n   *)
(* bytes (n at most 2^32 - 1), encode returns the too-small error exactly  *)
(* when 32 + 8 * n > W * H * 3.                                            *)
(***************************************************************************)
CapacityBoundary ==
    LET over == NeededBits(Len(secretFile)) > CapacityBits(carrierFile.size)
    IN  PayloadInDomain =>
          /\ pc \in {"encHeader", "encPayload", "encSave"} => ~over
          /\ Embedded => ~over
          /\ encodeResult = RInsufficientCapacity => over
          /\ (pc = "encDone" /\ imageSize # <<0, 0>> /\ over) =>
                encodeResult = RInsufficientCapacity

CapacityBoundaryWitness ==
    /\ pc = "encDone"
    /\ encodeResult = REncodeSuccess
    /\ Len(secretFile) = 2
    /\ NeededBits(Len(secretFile)) = CapacityBits(carrierFile.size)

(***************************************************************************)
(* C3 All or nothing: when encode returns the too-small error, and         *)
(* whenever the carrier cannot hold the header and a payload of n bytes,   *)
(* encode touches no pixel: every channel byte keeps its value, no         *)
(* getPixel/setPixel step is taken and no output image is saved.           *)
(***************************************************************************)
AllOrNothing ==
    /\ (pc = "encDone" /\ encodeResult = RInsufficientCapacity) =>
          /\ trace = <<>>
          /\ carrierImage = carrierFile
          /\ outputImage = NoImage
    /\ (pc \in {"encHeader", "encPayload", "encSave", "encDone"}
          /\ PayloadInDomain
          /\ NeededBits(Len(secretFile)) > CapacityBits(carrierFile.size)) =>
          /\ trace = <<>>
          /\ carrierImage \in {NoImage, carrierFile}
          /\ outputImage = NoImage

AllOrNothingWitness ==
    /\ pc = "encDone"
    /\ encodeResult = RInsufficientCapacity
    /\ carrierFile.size = <<13, 1>>
    /\ Len(secretFile) = 1
    /\ carrierImage = carrierFile

(***************************************************************************)
(* C4 Corrupt length: on an image that has the 32 header slots, decode     *)
(* returns the invalid-size error exactly when the length n assembled from *)
(* the LSBs of slots 0..31 has 32 + 8 * n > W * H * 3; it then has read    *)
(* slots 0..31 only, produced no bytes and left the image as loaded.       *)
(***************************************************************************)
CorruptLengthRejected ==
    (stegoImage # NoImage /\ CapacityBits(stegoImage.size) >= 32) =>
        /\ pc \in {"decPayload", "decWrite"} => ~HeaderExceeds(stegoImage)
        /\ (pc = "decDone" /\ decodeResult # RInvalidLength) => ~HeaderExceeds(stegoImage)
        /\ (pc = "decDone" /\ decodeResult = RInvalidLength) =>
              /\ HeaderExceeds(stegoImage)
              /\ Len(trace) = 32
              /\ TraceFollowsSlots
              /\ secretData = <<>>
              /\ outputFile = NoFile
              /\ stegoImage \in StegoCandidates

CorruptLengthWitness ==
    /\ pc = "decDone"
    /\ decodeResult = RInvalidLength
    /\ stegoImage = CarrierFile(<<4, 4>>, <<0, 0, 0, 32>>, 2)

(***************************************************************************)
(* C5 Empty payload: encoding zero bytes into a carrier of at least 32     *)
(* slots writes slots 0..31 only and leaves their LSBs 0; decoding the     *)
(* saved image returns the nothing-to-extract warning with no bytes.       *)
(***************************************************************************)
EmptyPayload ==
    /\ (pc = "encDone" /\ Embedded /\ Len(secretFile) = 0) =>
          /\ Len(trace) = 32
          /\ TraceFollowsSlots
          /\ \A s \in Slots(carrierImage) :
                IF s < 32
                THEN /\ SlotLsb(carrierImage, s) = 0
                     /\ SlotByte(carrierImage, s) \div 2 = SlotByte(carrierFile, s) \div 2
                ELSE SlotByte(carrierImage, s) = SlotByte(carrierFile, s)
    /\ (DecodingOutput /\ Len(secretFile) = 0) =>
          /\ pc \notin {"crashed", "decPayload", "decWrite"}
          /\ pc = "decDone" =>
                /\ decodeResult = REmptyPayload
                /\ secretData = <<>>
                /\ outputFile = NoFile
                /\ Len(trace) = 32

EmptyPayloadWitness ==
    /\ pc = "decDone"
    /\ DecodingOutput
    /\ Len(secretFile) = 0
    /\ decodeResult = REmptyPayload
    /\ \A s \in 0..31 : SlotLsb(carrierFile, s) = 1

(***************************************************************************)
(* C6 Encoder frame: after encode has embedded a payload of n bytes, every *)
(* slot from 32 + 8 * n on holds its original byte, every earlier slot     *)
(* keeps its upper 7 bits, and exactly 32 + 8 * n slot writes were made.   *)
(***************************************************************************)
EncoderFrame ==
    (pc = "encDone" /\ Embedded) =>
        /\ Len(trace) = NeededBits(Len(secretFile))
        /\ carrierImage.size = carrierFile.size
        /\ DOMAIN carrierImage.pixels = DOMAIN carrierFile.pixels
        /\ \A s \in Slots(carrierFile) :
              /\ SlotByte(carrierImage, s) \div 2 = SlotByte(carrierFile, s) \div 2
              /\ s >= NeededBits(Len(secretFile)) =>
                    SlotByte(carrierImage, s) = SlotByte(carrierFile, s)
        /\ encodeResult = REncodeSuccess => outputImage = carrierImage
        /\ StrayCount = 0

EncoderFrameWitness ==
    /\ pc = "encDone"
    /\ encodeResult = REncodeSuccess
    /\ Len(secretFile) = 1
    /\ CapacityBits(carrierFile.size) = 48
    /\ \E s \in 0..39 : SlotByte(outputImage, s) # SlotByte(carrierFile, s)
    /\ \E s \in 40..47 : SlotByte(carrierFile, s) % 2 = 1

(***************************************************************************)
(* C7 Wire format: in the image encode has finished, for a payload of      *)
(* n <= 2^32 - 1 bytes with 32 + 8 * n <= W * H * 3, the LSB of slot i is  *)
(* bit i of the payload length n for every i in 0..31.                     *)
(***************************************************************************)
HeaderSlotsCarryLength ==
    (runOp = "encode"
       /\ runPc = "done"
       /\ UpperHalf(runDataSize) = ToUnsigned(0, Bytes32)) =>
        runHeader = Narrow(runDataSize)

\* after that encode of 2^29 - 3 bytes slots 0..7 hold the bits of the last
\* payload byte
HeaderSlotsOverwritten ==
    /\ runOp = "encode"
    /\ runPc = "done"
    /\ runSize = <<37838, 37838>>
    /\ runDataSize = ToUnsigned(536870909, Bytes64)
    /\ runHeader = <<65, 255, 255, 31>>
    /\ runBitIndex = ToUnsigned(8, Bytes32)

\* the part of C7 that holds, for the payloads of at most MaxLen bytes that
\* are followed pixel by pixel (32 + 8 * n stays below 2^32): the LSB of slot
\* i is bit i of the length, the LSB of slot 32 + 8 * k + j is bit j of
\* payload byte k, and slot s is channel s mod 3 of the pixel
\* x = (s div 3) mod W, y = (s div 3) div W
WireFormat ==
    Saved =>
        /\ \A b \in 0..31 : SlotLsb(outputImage, b) = PlainBit(Len(secretFile), b)
        /\ \A k \in 0..(Len(secretFile) - 1) : \A j \in 0..7 :
              SlotLsb(outputImage, 32 + 8 * k + j) = PlainBit(secretFile[k + 1], j)

\* such an image
WireFormatWitness ==
    /\ encodeResult = REncodeSuccess
    /\ carrierFile.size = <<7, 2>>
    /\ secretFile = <<65>>
    /\ SlotLsb(outputImage, 32) = 1
    /\ SlotLsb(outputImage, 38) = 1
    /\ SlotLsb(carrierFile, 0) = 0

(***************************************************************************)
(* C8 Cursor bound: every pixel access of encode and of decode, in the     *)
(* header pass and in the payload pass, is at coordinates x < W, y < H.    *)
(***************************************************************************)
CursorInBounds ==
    \A k \in 1..Len(trace) : trace[k][1] < imageSize[1] /\ trace[k][2] < imageSize[2]

\* the part of C8 that is about encode, for a payload of at most 2^32 - 1
\* bytes; a longer secret file passes the check on its length cut to 32 bits
\* and takes the payload loop outside the image
EncodeCursorInBounds ==
    (pc \in {"encHeader", "encPayload", "encSave", "encDone"} /\ PayloadInDomain) =>
        CursorInBounds

\* decode of a 3x3 image, 27 slots with LSB 1: the header loop reads 27 bits
\* of the image and 5 bits from outside it, here 0, 1, 0, 0, 0 ...
ShortHeaderRead ==
    /\ runOp = "decode"
    /\ runSize = <<3, 3>>
    /\ runHeader = <<255, 255, 255, 255>>
    /\ runPc = "done"
    /\ runSecretSize = <<255, 255, 255, 71>>
    /\ runBitIndex = ToUnsigned(32, Bytes32)

\* ... or the process ends at pass 28, 27 bits read
ShortHeaderFaults ==
    /\ runOp = "decode"
    /\ runSize = <<3, 3>>
    /\ runPc = "crashed"
    /\ runSecretSize = <<255, 255, 255, 7>>
    /\ runBitIndex = ToUnsigned(27, Bytes32)

\* encode of a secret file of 2^32 + 1 bytes into a 4x4 carrier: the check
\* passes on secretSize = 1, and the process ends at pass 49, the first
\* outside the image, ...
LongEncodeFaults ==
    /\ runOp = "encode"
    /\ runSize = <<4, 4>>
    /\ runDataSize = <<1, 0, 0, 0, 1, 0, 0, 0>>
    /\ runSecretSize = ToUnsigned(1, Bytes32)
    /\ runPc = "crashed"
    /\ runBits = ToUnsigned(48, Bytes64)
    /\ runBitIndex = ToUnsigned(48, Bytes32)

\* ... or at a later access outside the image, ...
LongEncodeFaultsLater ==
    /\ runOp = "encode"
    /\ runSize = <<4, 4>>
    /\ runDataSize = <<1, 0, 0, 0, 1, 0, 0, 0>>
    /\ runPc = "crashed"
    /\ runBits = Gone

\* ... or all 2^35 + 40 passes are made and bitIndex ends at 40
LongEncodeEnds ==
    /\ runOp = "encode"
    /\ runSize = <<4, 4>>
    /\ runDataSize = <<1, 0, 0, 0, 1, 0, 0, 0>>
    /\ runSecretSize = ToUnsigned(1, Bytes32)
    /\ runPc = "done"
    /\ runBits = <<40, 0, 0, 0, 8, 0, 0, 0>>
    /\ runBitIndex = ToUnsigned(40, Bytes32)

\* the same call followed pixel by pixel: the process ends after the first
\* MaxStray accesses outside the image
LongEncodeStraysLater ==
    /\ pc = "crashed"
    /\ stegoImage = NoImage
    /\ imageSize = <<4, 4>>
    /\ secretLength = <<1, 0, 0, 0, 1, 0, 0, 0>>
    /\ bitIndex = Gone
    /\ Len(trace) = 48 + MaxStray

\* the same call followed pixel by pixel: pass 49 works on pixel (0, 4)
LongEncodeStrays ==
    /\ pc = "crashed"
    /\ stegoImage = NoImage
    /\ imageSize = <<4, 4>>
    /\ secretLength = <<1, 0, 0, 0, 1, 0, 0, 0>>
    /\ Len(trace) = 49
    /\ trace[49] = <<0, 4, 0>>

(***************************************************************************)
(* C9 Cursor does not wrap: for a payload of at most 2^32 - 1 bytes,       *)
(* whenever a pixel access is still to come, the 32-bit cursor bitIndex    *)
(* equals the exact number of accesses made so far, so that the k-th bit   *)
(* goes to slot k.                                                         *)
(***************************************************************************)
CursorExact ==
    (runPc \in {"header", "payload"}
       /\ UpperHalf(runDataSize) = ToUnsigned(0, Bytes32)) =>
        Widen(runBitIndex) = runBits

(***************************************************************************)
(* The calls the window makes and the steps of the codec agree: where a    *)
(* stepped call ends is where the whole call puts the program.             *)
(***************************************************************************)
\* the model holds every byte of a payload
PayloadsWhole ==
    PayloadInDomain => secretLength = ToUnsigned(Len(secretFile), Bytes64)

\* a finished embedding left what EmbedAll, EmbedWide, Accesses and SecretBits
\* compute
EncodeStepsAgree ==
    (pc = "encDone" /\ encodeResult \in {REncodeSuccess, ROutputWriteFailed}) =>
        LET first == FirstStray(imageSize, secretLength)
            passes == IF first = 0 THEN HeaderBits + ByteBits * ToInt(secretLength)
                      ELSE first - 1 + MaxStray
        IN  /\ carrierImage =
                  (IF first = 0
                   THEN EmbedAll(carrierFile, SecretBits(secretSize, secretData, passes))
                   ELSE EmbedWide(carrierFile, secretSize, secretData, secretLength))
            /\ carrierImage =
                  EmbedWide(carrierFile, secretSize, secretData, secretLength)
            /\ trace = Accesses(imageSize, passes)
            /\ bitIndex = MulAdd(secretSize, ByteBits, HeaderBits)
            /\ i = 0
            /\ byte_i = 0
            /\ secretSize = Narrow(secretLength)
            /\ secretData = CharsOf(secretFile)
            /\ (first = 0) = PayloadInDomain
            /\ (encodeResult = REncodeSuccess => outputImage = carrierImage)

\* an encode that ended the process did so at one of its first MaxStray + 1
\* passes outside the image, or at a later one
EncodeFaultsAgree ==
    (pc = "crashed" /\ stegoImage = NoImage) =>
        LET first == FirstStray(imageSize, secretLength)
        IN  /\ first > 0
            /\ Len(trace) \in first..(first + MaxStray)
            /\ IF bitIndex # Gone
               THEN /\ trace = Accesses(imageSize, Len(trace))
                    /\ bitIndex = ToUnsigned(Len(trace) - 1, Bytes32)
                    /\ i = (Len(trace) - 1 - HeaderBits) % ByteBits
                    /\ byte_i = ((Len(trace) - 1 - HeaderBits) \div ByteBits) + 1
                    /\ carrierImage =
                          EmbedAll(carrierFile,
                             SecretBits(secretSize, secretData, first - 1))
               ELSE /\ trace = Accesses(imageSize, first - 1 + MaxStray)
                    /\ i = 0
                    /\ byte_i = 0
                    /\ carrierImage = NoImage
            /\ secretSize = Narrow(secretLength)
            /\ secretData = CharsOf(secretFile)
            /\ encodeResult = NoResult
            /\ outputImage = NoImage

\* a decode that returned left what HeaderAfter, PayloadOf and Accesses compute
DecodeStepsAgree ==
    (pc = "decDone" /\ decodeResult # RStegoLoadFailed) =>
        \E g \in [OutPasses(stegoImage) -> GarbageColors] :
           /\ secretSize = HeaderAfter(stegoImage, HeaderBits, g)
           /\ i = 0
           /\ currentByte = 0
           /\ IF decodeResult \in {RInvalidLength, REmptyPayload}
              THEN /\ decodeResult = (IF InvalidSize(imageSize, secretSize)
                                      THEN RInvalidLength ELSE REmptyPayload)
                   /\ secretData = <<>>
                   /\ byte_i = 0
                   /\ bitIndex = ToUnsigned(HeaderBits, Bytes32)
                   /\ trace = Accesses(imageSize, HeaderBits)
              ELSE /\ ~InvalidSize(imageSize, secretSize)
                   /\ secretData = PayloadOf(stegoImage, secretSize)
                   /\ byte_i = Len(secretData)
                   /\ bitIndex = ToUnsigned(HeaderBits + ByteBits * Len(secretData),
                                            Bytes32)
                   /\ trace = Accesses(imageSize, HeaderBits + ByteBits * Len(secretData))
                   /\ (decodeResult = RDecodeSuccess =>
                         outputFile.bytes = [k \in 1..Len(secretData) |->
                                               ToByte(secretData[k])])

\* a decode that ended the process did so at a header pass out of range
\* (of the codec alone: the window can also end in a read past a buffer)
DecodeFaultsAgree ==
    (pc = "crashed" /\ stegoImage # NoImage) =>
        \E g \in [OutPasses(stegoImage) -> GarbageColors] :
           /\ (i + 1) \in OutPasses(stegoImage)
           /\ secretSize = HeaderAfter(stegoImage, i, g)
           /\ bitIndex = ToUnsigned(i, Bytes32)
           /\ trace = Accesses(imageSize, i + 1)
           /\ secretData = <<>>
           /\ decodeResult = NoResult

(***************************************************************************)
(* C10 Fixed-buffer termination: after any sequence of actions in the      *)
(* window, each of carrierPath, secretPath, stegoPath and status holds a   *)
(* NUL within its 256 bytes.                                               *)
(***************************************************************************)
BuffersTerminated ==
    /\ Terminated(carrierPath)
    /\ Terminated(secretPath)
    /\ Terminated(stegoPath)
    /\ Terminated(status)

\* the part of C10 that is about status alone
StatusTerminated == Terminated(status)
====
